---- MODULE Spec2Model ----
(***************************************************************************)
(* Model of pages/4_Film_Analysis.py: the catalog loader                   *)
(* (load_and_process_data / parse_list_column) and the five analysis       *)
(* pipelines, with the pandas operations they call (boolean indexing,      *)
(* dropna, sample, explode, groupby().size()/mean()/sum(), sort_values,    *)
(* head, unstack, fillna, .loc, melt) modelled by what they compute.       *)
(*                                                                         *)
(* Tables are sequences of rows, rows are records.  Object-column values   *)
(* (genres, countries) are strings; numeric columns are naturals.  A       *)
(* missing numeric value is NaN, a missing object value is NaNKey.         *)
(* A raw CSV cell is either a string, kept as its sequence of lexical      *)
(* tokens, or a float NaN (an empty CSV field).                            *)
(***************************************************************************)
EXTENDS Integers, Sequences, FiniteSets, TLC

VARIABLES raw,   \* the rows pd.read_csv returns for file_path
          df,    \* the table load_and_process_data returned (the cached table)
          pc,    \* "start" | "load_error" | "loaded" | "done"
          out    \* what the selected analysis block computed in this run

vars == <<raw, df, pc, out>>

----------------------------------------------------------------------------
(* Bounds and constants *)

\* Largest number of records in the catalog file.
MaxRecords == 3

\* Missing value of a numeric column (pandas NaN).
NaN == -1

\* Missing value of an object column (pandas NaN after explode of an empty list).
NaNKey == "NaN"

\* head(10): the genres / countries kept by the ranked analyses.
TopK == 10

\* head(5): the genres drawn bold in Genre Popularity Over Time.
Top5 == 5

\* sample(min(len(df_filtered), 5000), random_state=42)
SampleCap == 5000

\* (release_year // 10) * 10
DecadeWidth == 10

\* value=(2000, 2022): the Runtime analysis' default slider range.
DefaultLow == 2000
DefaultHigh == 2022

----------------------------------------------------------------------------
(* Generic helpers *)

Min(a, b) == IF a <= b THEN a ELSE b

Range(s) == {s[i] : i \in DOMAIN s}

RECURSIVE SumSeq(_)
SumSeq(s) == IF s = <<>> THEN 0 ELSE Head(s) + SumSeq(Tail(s))

RECURSIVE Flatten(_)
Flatten(ss) == IF ss = <<>> THEN <<>> ELSE Head(ss) \o Flatten(Tail(ss))

Perms(n) == {p \in [1..n -> 1..n] : \A i, j \in 1..n : i # j => p[i] # p[j]}

\* Position of a value in a sequence without repeats (0 when absent).
IndexOf(s, v) == IF v \in Range(s) THEN CHOOSE i \in DOMAIN s : s[i] = v ELSE 0

\* Python's ordering of the strings of the catalog (str.__lt__).
Alphabet == <<"Action", "BR", "Comedy", "Drama", "US">>

NumericColumns == {"index", "release_year", "runtime", "imdb_score", "imdb_votes", "decade"}

\* The rank of a value of column col in the column's ordering.
Ord(col, v) == IF col \in NumericColumns THEN v ELSE IndexOf(Alphabet, v)

\* pandas isna on a value of column col.
IsNA(col, v) == IF col \in NumericColumns THEN v = NaN ELSE v = NaNKey

\* Lexicographic order of two key tuples over the columns cols.
RECURSIVE LexLess(_, _, _)
LexLess(cols, a, b) ==
    IF cols = <<>> THEN FALSE
    ELSE IF Ord(Head(cols), Head(a)) # Ord(Head(cols), Head(b))
         THEN Ord(Head(cols), Head(a)) < Ord(Head(cols), Head(b))
    ELSE LexLess(Tail(cols), Tail(a), Tail(b))

\* The elements of a finite set of key tuples in ascending order.
RECURSIVE SortedKeys(_, _)
SortedKeys(cols, S) ==
    IF S = {} THEN <<>>
    ELSE LET m == CHOOSE x \in S : \A y \in S \ {x} : LexLess(cols, x, y)
         IN <<m>> \o SortedKeys(cols, S \ {m})

----------------------------------------------------------------------------
(* 2. Data Loading and Processing *)

StrLits == {"'Action'", "'Comedy'", "'Drama'", "'BR'", "'US'"}

\* The value of a string-literal token.
Unquote(tok) ==
    CASE tok = "'Action'" -> "Action"
      [] tok = "'Comedy'" -> "Comedy"
      [] tok = "'Drama'"  -> "Drama"
      [] tok = "'BR'"     -> "BR"
      [] tok = "'US'"     -> "US"

\* ast.literal_eval on a list display: "[" "]" or "[" lit ("," lit)* [","] "]".
\* ok = FALSE stands for the exception (SyntaxError / ValueError) it raises.
RECURSIVE ParseElems(_, _, _)
ParseElems(toks, i, acc) ==
    IF i > Len(toks) \/ toks[i] \notin StrLits THEN [ok |-> FALSE, val |-> <<>>]
    ELSE LET acc2 == Append(acc, Unquote(toks[i]))
         IN IF i + 1 > Len(toks) THEN [ok |-> FALSE, val |-> <<>>]
            ELSE IF toks[i + 1] = "]"
                 THEN [ok |-> i + 1 = Len(toks), val |-> IF i + 1 = Len(toks) THEN acc2 ELSE <<>>]
            ELSE IF toks[i + 1] = ","
                 THEN IF i + 2 = Len(toks) /\ toks[i + 2] = "]"
                      THEN [ok |-> TRUE, val |-> acc2]
                      ELSE ParseElems(toks, i + 2, acc2)
            ELSE [ok |-> FALSE, val |-> <<>>]

literal_eval(toks) ==
    IF Len(toks) < 2 \/ toks[1] # "[" THEN [ok |-> FALSE, val |-> <<>>]
    ELSE IF toks = <<"[", "]">> THEN [ok |-> TRUE, val |-> <<>>]
    ELSE ParseElems(toks, 2, <<>>)

\* lambda x: ast.literal_eval(x) if isinstance(x, str) else []
ParseCell(cell) ==
    IF cell.isstr THEN literal_eval(cell.toks) ELSE [ok |-> TRUE, val |-> <<>>]

ListColumns == {"genres", "country", "production_countries"}

\* parse_list_column raises as soon as one cell of the column does.
Raises(table) ==
    \E i \in DOMAIN table : \E c \in ListColumns : ~ParseCell(table[i][c]).ok

\* The table load_and_process_data returns when no cell raises; read_csv gives
\* the rows a RangeIndex, kept here as the column "index".
load_and_process_data(table) ==
    [i \in DOMAIN table |->
        [index                |-> i - 1,
         release_year         |-> table[i].release_year,
         runtime              |-> table[i].runtime,
         imdb_score           |-> table[i].imdb_score,
         imdb_votes           |-> table[i].imdb_votes,
         genres               |-> ParseCell(table[i].genres).val,
         country              |-> ParseCell(table[i].country).val,
         production_countries |-> ParseCell(table[i].production_countries).val]]

----------------------------------------------------------------------------
(* The catalog files the model reads *)

Str(toks) == [isstr |-> TRUE, toks |-> toks]
NotStr == [isstr |-> FALSE, toks |-> <<>>]

RawRow(y, rt, sc, v, g, c, p) ==
    [release_year |-> y, runtime |-> rt, imdb_score |-> sc, imdb_votes |-> v,
     genres |-> g, country |-> c, production_countries |-> p]

RawRows ==
    { RawRow(1990, 90, 6, 100, Str(<<"[", "'Drama'", "]">>),
             Str(<<"[", "'US'", "]">>), Str(<<"[", "'US'", "]">>)),
      RawRow(1995, 120, 8, 200, Str(<<"[", "'Drama'", ",", "'Comedy'", "]">>),
             Str(<<"[", "'US'", ",", "'BR'", "]">>), Str(<<"[", "]">>)),
      RawRow(2022, NaN, NaN, NaN, Str(<<"[", "]">>),
             Str(<<"[", "'BR'", "]">>), NotStr),
      RawRow(2022, 90, NaN, 100, Str(<<"[", "'Comedy'", "]">>),
             Str(<<"[", "]">>), Str(<<"[", "]">>)),
      RawRow(1990, 120, 6, NaN, NotStr, NotStr, Str(<<"[", "'BR'", ",", "]">>)),
      RawRow(1995, 90, 8, 200, Str(<<"[", "'Drama'">>),
             Str(<<"[", "'US'", "]">>), Str(<<"[", "]">>)),
      RawRow(2022, 120, 6, 100, Str(<<"[", "'Comedy'", ",", "'Action'", ",", "]">>),
             Str(<<"[", "'BR'", "]">>), Str(<<"[", "'US'", "]">>)) }

RawTables == UNION {[1..n -> RawRows] : n \in 1..MaxRecords}

----------------------------------------------------------------------------
(* The pandas operations the analysis blocks call *)

\* df[(df['release_year'] >= low) & (df['release_year'] <= high)]: a new table.
YearFilter(table, low, high) ==
    LET Keep(r) == r.release_year >= low /\ r.release_year <= high
    IN SelectSeq(table, Keep)

\* .dropna(subset=["runtime", "imdb_score"])
DropNaRuntimeScore(table) ==
    LET Keep(r) == r.runtime # NaN /\ r.imdb_score # NaN
    IN SelectSeq(table, Keep)

\* .sample(n, random_state=42): n rows without replacement, in the order of
\* the seeded permutation p of the table's positions.
Sample(table, n, p) == [i \in 1..n |-> table[p[i]]]

\* df_filtered['decade'] = (df_filtered['release_year'] // 10) * 10
Decade(year) == (year \div DecadeWidth) * DecadeWidth

WithDecade(table) ==
    [i \in DOMAIN table |->
        [f \in DOMAIN table[i] \cup {"decade"} |->
            IF f = "decade" THEN Decade(table[i].release_year) ELSE table[i][f]]]

\* ExplodeRow with an empty list contributing no row at all.
ExplodeRowSkipEmpty(r, col) == [j \in DOMAIN r[col] |-> [r EXCEPT ![col] = r[col][j]]]

\* The rows DataFrame.explode makes of one row: one per element of the list
\* in col, and for an empty list one row with NaN in col.
ExplodeRow(r, col) ==
    IF r[col] = <<>> THEN <<[r EXCEPT ![col] = NaNKey]>>
    ELSE [j \in DOMAIN r[col] |-> [r EXCEPT ![col] = r[col][j]]]

\* DataFrame.explode(col): the rows of each record in turn, in record order.
explode(table, col) == Flatten([i \in DOMAIN table |-> ExplodeRow(table[i], col)])

\* The group key of a row under groupby(cols).
KeyOf(r, cols) == [k \in DOMAIN cols |-> r[cols[k]]]

\* groupby drops a row when one of its key values is NaN (dropna=True).
HasNaKey(r, cols) == \E k \in DOMAIN cols : IsNA(cols[k], r[cols[k]])

\* The group keys of groupby(cols), in ascending order (sort=True).
GroupKeys(rows, cols) ==
    SortedKeys(cols, {KeyOf(rows[i], cols) : i \in {j \in DOMAIN rows : ~HasNaKey(rows[j], cols)}})

\* RowsOfGroup matching on the first key column only.
RowsOfGroupFirstKey(rows, cols, key) == SelectSeq(rows, LAMBDA r : r[cols[1]] = key[1])

RowsOfGroup(rows, cols, key) == SelectSeq(rows, LAMBDA r : KeyOf(r, cols) = key)

\* .groupby(cols).size(): a series, one entry per group key.
groupby_size(rows, cols) ==
    LET keys == GroupKeys(rows, cols)
    IN [k \in DOMAIN keys |->
           [key |-> keys[k], val |-> Len(RowsOfGroup(rows, cols, keys[k]))]]

\* The present values of column col in rows (mean and sum skip NaN).
Present(rows, col) ==
    LET vals == [i \in DOMAIN rows |-> rows[i][col]]
    IN SelectSeq(vals, LAMBDA v : v # NaN)

\* .groupby(cols)[col].mean(): the mean of a group is the fraction num/den of
\* its present values, and NaN (den = 0) when the group has none.
groupby_mean(rows, cols, col) ==
    LET keys == GroupKeys(rows, cols)
    IN [k \in DOMAIN keys |->
           LET vals == Present(RowsOfGroup(rows, cols, keys[k]), col)
           IN [key |-> keys[k], val |-> [num |-> SumSeq(vals), den |-> Len(vals)]]]

\* .groupby(cols)[col].sum(): 0 for a group without present values.
groupby_sum(rows, cols, col) ==
    LET keys == GroupKeys(rows, cols)
    IN [k \in DOMAIN keys |->
           [key |-> keys[k],
            val |-> SumSeq(Present(RowsOfGroup(rows, cols, keys[k]), col))]]

\* The order of two values of a series of dtype "int" (counts, sums) or
\* "mean" (fractions), and pandas isna on them.
Greater(dtype, a, b) ==
    IF dtype = "mean" THEN a.num * b.den > b.num * a.den ELSE a > b

IsNaN(dtype, a) == IF dtype = "mean" THEN a.den = 0 ELSE a = NaN

\* Series.sort_values(ascending=False), kind="quicksort", na_position="last":
\* the entries by value descending, NaN entries last in their original order.
\* numpy's quicksort is not a stable sort, so the order of entries with equal
\* values is whatever the build produces: every such order is a result.
sort_values(s, dtype) ==
    LET n == Len(s)
        Valid(p) ==
            \A i, j \in 1..n : i < j =>
                /\ IsNaN(dtype, s[p[i]].val) => IsNaN(dtype, s[p[j]].val) /\ p[i] < p[j]
                /\ ~IsNaN(dtype, s[p[i]].val) /\ ~IsNaN(dtype, s[p[j]].val)
                      => ~Greater(dtype, s[p[j]].val, s[p[i]].val)
    IN {[i \in 1..n |-> s[p[i]]] : p \in {q \in Perms(n) : Valid(q)}}

\* .head(k)
head(s, k) == SubSeq(s, 1, Min(Len(s), k))

\* .index.tolist() of a series grouped by one column.
IndexList(s) == [i \in DOMAIN s |-> s[i].key[1]]

\* A wide table: its row labels, its column labels, its cells by position.
EmptyFrame == [ok |-> TRUE, index |-> <<>>, columns |-> <<>>, values |-> <<>>]

Lookup(s, key, fill) ==
    IF \E i \in DOMAIN s : s[i].key = key
    THEN s[CHOOSE i \in DOMAIN s : s[i].key = key].val
    ELSE fill

\* Series.unstack(fill_value=fill) of a series keyed by the two columns cols,
\* and .unstack().fillna(fill): rows are the first key's values, columns the
\* second key's, both ascending; a pair the series lacks gets fill.
unstack(s, cols, fill) ==
    LET rowsK == SortedKeys(<<cols[1]>>, {<<s[i].key[1]>> : i \in DOMAIN s})
        colsK == SortedKeys(<<cols[2]>>, {<<s[i].key[2]>> : i \in DOMAIN s})
    IN [ok      |-> TRUE,
        index   |-> [i \in DOMAIN rowsK |-> rowsK[i][1]],
        columns |-> [j \in DOMAIN colsK |-> colsK[j][1]],
        values  |-> [i \in DOMAIN rowsK |-> [j \in DOMAIN colsK |->
                        Lookup(s, <<rowsK[i][1], colsK[j][1]>>, fill)]]]

\* .loc[rows, cols] with two lists of labels: the table restricted to them,
\* in their order; KeyError (ok = FALSE) when a label is not in the table.
loc(w, rows, cols) ==
    IF \/ \E i \in DOMAIN rows : rows[i] \notin Range(w.index)
       \/ \E j \in DOMAIN cols : cols[j] \notin Range(w.columns)
    THEN [ok |-> FALSE, index |-> <<>>, columns |-> <<>>, values |-> <<>>]
    ELSE [ok      |-> TRUE,
          index   |-> rows,
          columns |-> cols,
          values  |-> [i \in DOMAIN rows |-> [j \in DOMAIN cols |->
                          w.values[IndexOf(w.index, rows[i])][IndexOf(w.columns, cols[j])]]]]

\* melt reading the cells row by row while labelling them column by column.
melt_row_major(w) ==
    LET n == Len(w.index)
        m == Len(w.columns)
    IN Flatten([j \in DOMAIN w.columns |->
                   [i \in DOMAIN w.index |->
                       LET k == (j - 1) * n + (i - 1)
                       IN [id |-> w.index[i], variable |-> w.columns[j],
                           value |-> w.values[(k \div m) + 1][(k % m) + 1]]]])

\* .reset_index().melt(id_vars=<row label>): one row per cell, the cells of
\* the first value column for every table row, then those of the second, ...
melt(w) ==
    Flatten([j \in DOMAIN w.columns |->
                [i \in DOMAIN w.index |->
                    [id |-> w.index[i], variable |-> w.columns[j], value |-> w.values[i][j]]]])

----------------------------------------------------------------------------
(* The script: one run loads the table and executes the selected block *)

NoRows == <<>>

\* What a run has computed: the block that ran, how it ended, the table the
\* year filter selected, every explode (its input, column and output), every
\* groupby().size() (the rows fed, the key columns, the series), the series
\* that is ranked, its ranking cut by head, the top-k labels (top_columns:
\* those of the second dimension), the wide table and its long form.
NoOutput ==
    [analysis |-> "none", status |-> "none", filtered |-> NoRows, plot |-> NoRows,
     corr |-> "none", explodes |-> <<>>, sizes |-> <<>>, series |-> <<>>,
     wide |-> EmptyFrame, long |-> <<>>, ranked |-> <<>>, top |-> <<>>,
     top_columns |-> <<>>]

Init ==
    /\ raw \in RawTables
    /\ df = <<>>
    /\ pc = "start"
    /\ out = NoOutput

\* df = load_and_process_data(file_path), first run: the exception of a cell
\* that literal_eval rejects ends the script.
Load ==
    /\ pc = "start"
    /\ IF Raises(raw)
       THEN pc' = "load_error" /\ df' = <<>>
       ELSE pc' = "loaded" /\ df' = load_and_process_data(raw)
    /\ UNCHANGED <<raw, out>>

RECURSIVE MinOf(_)
MinOf(s) == IF Len(s) = 1 THEN s[1] ELSE Min(s[1], MinOf(Tail(s)))

RECURSIVE MaxOf(_)
MaxOf(s) == IF Len(s) = 1 THEN s[1] ELSE (IF s[1] >= MaxOf(Tail(s)) THEN s[1] ELSE MaxOf(Tail(s)))

Years(table) == [i \in DOMAIN table |-> table[i].release_year]

\* int(df['release_year'].min()), int(df['release_year'].max())
min_year == MinOf(Years(df))
max_year == MaxOf(Years(df))

\* The positions of the range slider the model tries.
SliderStops == {1990, 1995, 2000, 2022}

\* st.slider(min_value=min_year, max_value=max_year, step=1) returns a pair
\* (low, high) with min_year <= low <= high <= max_year.
YearRanges ==
    {r \in SliderStops \X SliderStops :
        min_year <= r[1] /\ r[1] <= r[2] /\ r[2] <= max_year}

\* CacheAfterRequest when the filtered table is a view of the cached one.
CacheWithDecade(cache, request_table) == WithDecade(cache)

\* The cached table after a run that assigned a column to its own filtered
\* table: boolean indexing and sample return new tables, so the assignment
\* of line 140 does not reach the table st.cache_data holds.
CacheAfterRequest(cache, request_table) == cache

\* 5. Analysis Option 1: Runtime vs IMDb Score.  The slider's default value
\* (2000, 2022) must lie within [min_year, max_year], or st.slider raises.
\* Series.corr is NaN unless both columns vary over the plotted rows.
Correlation(plot) ==
    IF /\ \E i, j \in DOMAIN plot : plot[i].runtime # plot[j].runtime
       /\ \E i, j \in DOMAIN plot : plot[i].imdb_score # plot[j].imdb_score
    THEN "number" ELSE "nan"

RuntimeVsScore ==
    /\ pc = "loaded"
    /\ IF min_year <= DefaultLow /\ DefaultHigh <= max_year
       THEN \E year_range \in YearRanges :
              LET filtered == YearFilter(df, year_range[1], year_range[2])
                  df_plot  == DropNaRuntimeScore(filtered)
              IN out' = [NoOutput EXCEPT !.analysis = "Runtime vs IMDb Score & Distribution",
                                         !.status = "ok",
                                         !.filtered = filtered,
                                         !.plot = df_plot,
                                         !.corr = Correlation(df_plot)]
       ELSE out' = [NoOutput EXCEPT !.analysis = "Runtime vs IMDb Score & Distribution",
                                    !.status = "StreamlitAPIException"]
    /\ pc' = "done"
    /\ UNCHANGED <<raw, df>>

\* df_long.groupby('Genre')['Count'].sum(): the column totals of the long form.
GenreTotals(long) ==
    LET keys == SortedKeys(<<"genres">>, {<<long[i].variable>> : i \in DOMAIN long})
    IN [k \in DOMAIN keys |->
           [key |-> keys[k],
            val |-> SumSeq([i \in DOMAIN long |->
                              IF long[i].variable = keys[k][1] THEN long[i].value ELSE 0])]]

\* 6. Analysis Option 2: Genre Popularity Over Time.  The permutation that
\* RandomState(42) draws for a table of a given length is not computed here:
\* the block is run with every permutation p of the filtered rows.
GenrePopularityOverTime ==
    /\ pc = "loaded"
    /\ \E year_range \in YearRanges :
         LET filtered == YearFilter(df, year_range[1], year_range[2])
             n        == Min(Len(filtered), SampleCap)
         IN \E p \in Perms(Len(filtered)) :
              LET df_filtered  == WithDecade(Sample(filtered, n, p))
                  exploded     == explode(df_filtered, "genres")
                  counts       == groupby_size(exploded, <<"decade", "genres">>)
                  genre_decade == unstack(counts, <<"decade", "genres">>, 0)
                  df_long      == melt(genre_decade)
                  totals       == GenreTotals(df_long)
              IN \E genre_totals \in sort_values(totals, "int") :
                   /\ out' = [NoOutput EXCEPT
                                !.analysis = "Genre Popularity Over Time",
                                !.status = "ok",
                                !.filtered = filtered,
                                !.explodes = <<[src |-> df_filtered, col |-> "genres", rows |-> exploded]>>,
                                !.sizes = <<[fed |-> exploded, cols |-> <<"decade", "genres">>, res |-> counts]>>,
                                !.wide = genre_decade,
                                !.long = df_long,
                                !.series = totals,
                                !.ranked = head(genre_totals, Top5),
                                !.top = IndexList(head(genre_totals, Top5))]
                   /\ df' = CacheAfterRequest(df, df_filtered)
    /\ pc' = "done"
    /\ UNCHANGED raw

\* df[df['genres'].apply(lambda x: any(g in top10_genres for g in x))]
WithTopGenre(table, top10_genres) ==
    SelectSeq(table, LAMBDA r : \E k \in DOMAIN r.genres : r.genres[k] \in Range(top10_genres))

\* 7. Analysis Option 3: Genre by Country
GenreByCountry ==
    /\ pc = "loaded"
    /\ LET by_genre == explode(df, "genres")
           genre_size == groupby_size(by_genre, <<"genres">>)
       IN \E genre_counts \in sort_values(genre_size, "int") :
            LET top10_genres  == IndexList(head(genre_counts, TopK))
                df_top_genres == WithTopGenre(df, top10_genres)
                by_country    == explode(df_top_genres, "country")
                country_size  == groupby_size(by_country, <<"country">>)
            IN \E country_counts \in sort_values(country_size, "int") :
                 LET top10_countries == IndexList(head(country_counts, TopK))
                     ex_genres  == explode(df_top_genres, "genres")
                     ex_both    == explode(ex_genres, "country")
                     pair_size  == groupby_size(ex_both, <<"genres", "country">>)
                     unstacked  == unstack(pair_size, <<"genres", "country">>, 0)
                     pivot      == loc(unstacked, top10_genres, top10_countries)
                 IN out' = [NoOutput EXCEPT
                              !.analysis = "Genre by Country",
                              !.status = IF pivot.ok THEN "ok" ELSE "KeyError",
                              !.explodes = <<[src |-> df, col |-> "genres", rows |-> by_genre],
                                             [src |-> df_top_genres, col |-> "country", rows |-> by_country],
                                             [src |-> df_top_genres, col |-> "genres", rows |-> ex_genres],
                                             [src |-> ex_genres, col |-> "country", rows |-> ex_both]>>,
                              !.sizes = <<[fed |-> by_genre, cols |-> <<"genres">>, res |-> genre_size],
                                          [fed |-> by_country, cols |-> <<"country">>, res |-> country_size],
                                          [fed |-> ex_both, cols |-> <<"genres", "country">>, res |-> pair_size]>>,
                              !.series = genre_size,
                              !.ranked = head(genre_counts, TopK),
                              !.top = top10_genres,
                              !.top_columns = top10_countries,
                              !.wide = pivot,
                              !.long = IF pivot.ok THEN melt(pivot) ELSE <<>>]
    /\ pc' = "done"
    /\ UNCHANGED <<raw, df>>

\* 8. Analysis Option 4: Most Popular Genre by IMDb Score
MostPopularGenreByScore ==
    /\ pc = "loaded"
    /\ LET exploded == explode(df, "genres")
           means    == groupby_mean(exploded, <<"genres">>, "imdb_score")
       IN \E sorted \in sort_values(means, "mean") :
            out' = [NoOutput EXCEPT
                      !.analysis = "Most Popular Genre by IMDb Score",
                      !.status = "ok",
                      !.explodes = <<[src |-> df, col |-> "genres", rows |-> exploded]>>,
                      !.series = means,
                      !.ranked = head(sorted, TopK),
                      !.top = IndexList(head(sorted, TopK))]
    /\ pc' = "done"
    /\ UNCHANGED <<raw, df>>

\* 9. Analysis Option 5: Genre with Highest Votes
GenreWithHighestVotes ==
    /\ pc = "loaded"
    /\ LET exploded == explode(df, "genres")
           sums     == groupby_sum(exploded, <<"genres">>, "imdb_votes")
       IN \E sorted \in sort_values(sums, "int") :
            out' = [NoOutput EXCEPT
                      !.analysis = "Genre with Highest Votes",
                      !.status = "ok",
                      !.explodes = <<[src |-> df, col |-> "genres", rows |-> exploded]>>,
                      !.series = sums,
                      !.ranked = head(sorted, TopK),
                      !.top = IndexList(head(sorted, TopK))]
    /\ pc' = "done"
    /\ UNCHANGED <<raw, df>>

\* A widget change reruns the script from the top: load_and_process_data is
\* served from st.cache_data and the previous run's tables are gone.
Rerun ==
    /\ pc = "done"
    /\ pc' = "loaded"
    /\ out' = NoOutput
    /\ UNCHANGED <<raw, df>>

Next ==
    \/ Load
    \/ RuntimeVsScore
    \/ GenrePopularityOverTime
    \/ GenreByCountry
    \/ MostPopularGenreByScore
    \/ GenreWithHighestVotes
    \/ Rerun

Spec == Init /\ [][Next]_vars

----------------------------------------------------------------------------
(* Properties *)

Done(analysis) == pc = "done" /\ out.analysis = analysis /\ out.status = "ok"

SumOfLengths(table, col) == SumSeq([i \in DOMAIN table |-> Len(table[i][col])])

CountWhere(seq, P(_)) == Cardinality({i \in DOMAIN seq : P(seq[i])})

\* C1 as stated: every explode returns as many rows as the sum over its input
\* records of the exploded field's length (an empty list contributes no row).
C1_RowsEqualSumOfLengths ==
    \A k \in DOMAIN out.explodes :
        Len(out.explodes[k].rows) = SumOfLengths(out.explodes[k].src, out.explodes[k].col)

\* C1 amended: every explode returns one row per element of the exploded field
\* and one row, holding NaN in that field, per record whose list is empty; so
\* the rows holding a value number the sum of the lengths.
C1_RowsPerElementAndNaNPerEmpty ==
    \A k \in DOMAIN out.explodes :
        LET e == out.explodes[k]
            empties == CountWhere(e.src, LAMBDA r : r[e.col] = <<>>)
        IN /\ Len(e.rows) = SumOfLengths(e.src, e.col) + empties
           /\ CountWhere(e.rows, LAMBDA r : r[e.col] = NaNKey) = empties
           /\ CountWhere(e.rows, LAMBDA r : r[e.col] # NaNKey) = SumOfLengths(e.src, e.col)

\* C1 witness: an explode of a table holding a record with an empty list and a
\* record with two values.
C1_Witness ==
    \E k \in DOMAIN out.explodes :
        LET e == out.explodes[k]
        IN /\ \E i \in DOMAIN e.src : e.src[i][e.col] = <<>>
           /\ \E i \in DOMAIN e.src : Len(e.src[i][e.col]) = 2
           /\ Len(e.rows) >= 4

SumOfCounts(series) == SumSeq([i \in DOMAIN series |-> series[i].val])

\* C2 as stated: the counts of every groupby().size() sum to the number of
\* expanded rows fed to it.
C2_CountsSumToRowsFed ==
    \A k \in DOMAIN out.sizes :
        SumOfCounts(out.sizes[k].res) = Len(out.sizes[k].fed)

\* C2 amended: the counts of every groupby().size() sum to the number of rows
\* fed to it whose key columns all hold a value (rows with NaN in a key column
\* are in no group), every group is counted at least once, and no key repeats.
C2_CountsSumToRowsWithKeys ==
    \A k \in DOMAIN out.sizes :
        LET a == out.sizes[k]
        IN /\ SumOfCounts(a.res) =
                CountWhere(a.fed, LAMBDA r : \A c \in DOMAIN a.cols : ~IsNA(a.cols[c], r[a.cols[c]]))
           /\ \A i \in DOMAIN a.res : a.res[i].val >= 1
           /\ \A i, j \in DOMAIN a.res : i # j => a.res[i].key # a.res[j].key

\* C2 witness: a count by two keys with several groups, fed a row whose key
\* is NaN.
C2_Witness ==
    \E k \in DOMAIN out.sizes :
        LET a == out.sizes[k]
        IN /\ Len(a.cols) = 2
           /\ Len(a.res) >= 3
           /\ \E i \in DOMAIN a.fed : a.fed[i][a.cols[2]] = NaNKey
           /\ SumOfCounts(a.res) >= 4

\* The values of column col in rows, each once, in the order first met.
RECURSIVE FirstSeen(_, _, _)
FirstSeen(rows, col, acc) ==
    IF rows = <<>> THEN acc
    ELSE LET v == Head(rows)[col]
         IN FirstSeen(Tail(rows), col,
                      IF v = NaNKey \/ v \in Range(acc) THEN acc ELSE Append(acc, v))

\* The entries of a series grouped by one column, in the order of labels.
InOrder(series, labels) ==
    [i \in DOMAIN labels |-> series[CHOOSE k \in DOMAIN series : series[k].key = <<labels[i]>>]]

\* A stable descending sort: entries by value descending, entries of equal
\* value (and the NaN entries, last) in the order they have in s.
RECURSIVE StableDescending(_, _)
StableDescending(s, dtype) ==
    IF s = <<>> THEN <<>>
    ELSE LET Best(i) ==
                 IF \A k \in DOMAIN s : IsNaN(dtype, s[k].val) THEN i = 1
                 ELSE /\ ~IsNaN(dtype, s[i].val)
                      /\ \A k \in DOMAIN s :
                            ~IsNaN(dtype, s[k].val) =>
                               /\ ~Greater(dtype, s[k].val, s[i].val)
                               /\ (k < i => Greater(dtype, s[i].val, s[k].val))
             b == CHOOSE i \in DOMAIN s : Best(i)
         IN <<s[b]>> \o StableDescending(SubSeq(s, 1, b - 1) \o SubSeq(s, b + 1, Len(s)), dtype)

RankedByGenre == {"Genre by Country", "Most Popular Genre by IMDb Score"}

RankDtype == IF out.analysis = "Most Popular Genre by IMDb Score" THEN "mean" ELSE "int"

\* C3 as stated: the ranked genres are the first min(K, n) entries of the
\* aggregation result ordered by metric descending, entries of equal metric in
\* the order the genres were first met in the expanded rows.
C3_RankedTiesInFirstSeenOrder ==
    (pc = "done" /\ out.analysis \in RankedByGenre) =>
        LET seen == FirstSeen(out.explodes[1].rows, "genres", <<>>)
            expected == StableDescending(InOrder(out.series, seen), RankDtype)
        IN /\ Len(out.ranked) = Min(TopK, Len(out.series))
           /\ out.ranked = head(expected, TopK)

\* The series a long table is, keyed by (row label, column label).
AsSeries(long) == [i \in DOMAIN long |-> [key |-> <<long[i].id, long[i].variable>>, val |-> long[i].value]]

\* The key columns of the wide table of this run.
WideColumns == out.sizes[Len(out.sizes)].cols

\* The cells the aggregation holds, and 0 for the pairs it lacks.
CellsFromCounts ==
    [i \in DOMAIN out.wide.index |-> [j \in DOMAIN out.wide.columns |->
        Lookup(out.sizes[Len(out.sizes)].res, <<out.wide.index[i], out.wide.columns[j]>>, 0)]]

\* C4: a wide table melted to long form and widened again (unstack, fill with
\* 0, .loc on the table's own row and column lists) is the wide table itself:
\* same row labels, same column labels, same order, same cells; and its cells
\* are the aggregation's counts, 0 where the aggregation has no such pair.
C4_WideLongWideRoundTrip ==
    (pc = "done" /\ out.sizes # <<>> /\ out.wide.ok) =>
        /\ loc(unstack(AsSeries(out.long), WideColumns, 0), out.wide.index, out.wide.columns)
             = out.wide
        /\ Len(out.long) = Len(out.wide.index) * Len(out.wide.columns)
        /\ out.wide.values = CellsFromCounts

\* C4 witness: a genre-by-country table whose rows are not in alphabetical
\* order, with two columns and a cell the aggregation lacks.
C4_Witness ==
    /\ Done("Genre by Country")
    /\ Len(out.wide.index) >= 2 /\ Len(out.wide.columns) = 2
    /\ out.wide.index[1] = "Drama" /\ out.wide.index[2] = "Comedy"
    /\ \E i \in DOMAIN out.wide.index : \E j \in DOMAIN out.wide.columns :
          /\ out.wide.values[i][j] = 0
          /\ \A k \in DOMAIN out.sizes[3].res :
                out.sizes[3].res[k].key # <<out.wide.index[i], out.wide.columns[j]>>

\* C5 as stated: loading never raises, and every cell that is not a valid
\* encoded list is the empty sequence in the normalized table.
C5_NormalizationNeverRaises ==
    /\ pc # "load_error"
    /\ pc \in {"loaded", "done"} =>
          \A i \in DOMAIN raw : \A c \in ListColumns :
              ~ParseCell(raw[i][c]).ok \/ ~raw[i][c].isstr => df[i][c] = <<>>

YearFiltered == {"Runtime vs IMDb Score & Distribution", "Genre Popularity Over Time"}

\* C6 as stated: a run whose year filter selects no record ends with the
\* explicit empty-result marker, which is neither a table nor a failure.
C6_EmptyFilterGivesEmptyMarker ==
    (pc = "done" /\ out.analysis \in YearFiltered
        /\ out.status # "StreamlitAPIException" /\ out.filtered = <<>>)
      => out.status = "empty"

\* C8: once loaded, no step changes the cached table.
C8_CachedTableNeverChanges == [][pc # "start" => df' = df]_vars

\* C8 witness: a run that filtered by year, sampled and assigned the decade
\* column to its own table, the cached table having no such column.
C8_Witness ==
    /\ Done("Genre Popularity Over Time")
    /\ Len(out.filtered) >= 1 /\ Len(out.filtered) < Len(df)
    /\ \A i \in DOMAIN out.explodes[1].src : "decade" \in DOMAIN out.explodes[1].src[i]
    /\ \A i \in DOMAIN df : "decade" \notin DOMAIN df[i]

\* The number of expanded rows holding the pair (genre, country).
PairCount(rows, genre, country) ==
    CountWhere(rows, LAMBDA r : r.genres = genre /\ r.country = country)

\* C9 as stated: the genre-by-country block always produces the wide table,
\* its rows the top genres and its columns the top countries in their order,
\* each cell the number of expanded rows with that pair (0 when there is none).
C9_WideTableOverAllowLists ==
    (pc = "done" /\ out.analysis = "Genre by Country") =>
        /\ out.wide.ok
        /\ out.wide.index = out.top
        /\ out.wide.columns = out.top_columns
        /\ out.wide.values =
             [i \in DOMAIN out.top |-> [j \in DOMAIN out.top_columns |->
                 PairCount(out.explodes[4].rows, out.top[i], out.top_columns[j])]]

\* C10 as stated: every ranked genre's mean is taken over exactly the rows of
\* the genre whose score is present, and there is at least one such row (a
\* genre without a present score is not in the ranked output).
C10_RankedMeansAreDefined ==
    (pc = "done" /\ out.analysis = "Most Popular Genre by IMDb Score") =>
        \A i \in DOMAIN out.ranked :
            LET g == out.ranked[i].key[1]
                scored == SelectSeq(out.explodes[1].rows,
                                    LAMBDA r : r.genres = g /\ r.imdb_score # NaN)
            IN /\ out.ranked[i].val.den = Len(scored)
               /\ out.ranked[i].val.num = SumSeq([k \in DOMAIN scored |-> scored[k].imdb_score])
               /\ out.ranked[i].val.den >= 1

====
